---- MODULE Spec2Model ----
(***************************************************************************)
(* AtomicInt (types/atomic/int.go): an int guarded by a sync.RWMutex.      *)
(*                                                                         *)
(* Every method is modelled statement by statement.  pc[t] names the line  *)
(* of int.go that goroutine t executes next ("L38" is line 38); a compound *)
(* assignment (+=, ++, --) is a load of ai.val followed by a store, written *)
(* "L38" and "L38w".  The deferred Unlock/RUnlock runs after the return     *)
(* statement has evaluated its operand and carries the label of the defer  *)
(* statement's line.                                                       *)
(*                                                                         *)
(* sync.RWMutex is the Go standard library's: Lock waits until no writer   *)
(* and no reader holds the mutex, RLock waits until no writer holds it.    *)
(* (Go also stops new readers while a writer waits; leaving that out only  *)
(* adds interleavings.)                                                    *)
(***************************************************************************)
EXTENDS Integers, FiniteSets, Sequences, TLC

\* ------------------------------------------------------------------ bounds

\* Calls invoked in one run of the general harness (Spec).
MaxCalls == 3

\* IncrementAndGet calls per worker in the counting harness (SpecInc).
MaxRounds == 2

\* Goroutines sharing the one AtomicInt instance, and those of them that call
\* under the general harness.
Threads == {1, 2, 3}
Clients == {1, 2}

\* Arguments of NewAtomicInt, of Set / GetAndSet / CompareAndSet, and of
\* AddAndGet / GetAndAdd.
InitVals == {1}
Values == {0, 2}
Deltas == {-1, 2}

\* ------------------------------------------------------------ Go's int

\* `val int`: Go's int is 32 or 64 bits wide, as the build target has it (32
\* on GOARCH=386 and arm, 64 on amd64 and arm64), and its arithmetic wraps
\* around in two's complement.  An int is held here as its 16-bit words, the
\* least significant first: two words in a 32-bit build, four in a 64-bit one.
IntSizes == {32, 64}
WordBits == 16
Radix    == 65536

\* The k words of the integer n in two's complement; the words above n's own
\* repeat its sign.
RECURSIVE ToWords(_, _)
ToWords(k, n) ==
    IF k = 0 THEN <<>>
    ELSE <<n % Radix>> \o ToWords(k - 1, n \div Radix)

\* The int of w bits whose value is n, for n in -2^31 .. 2^31-1.
IntOf(w, n) == ToWords(w \div WordBits, n)

\* The int x is negative: the top bit of its top word is set.
Negative(x) == x[Len(x)] >= Radix \div 2

\* The value of the int x is in -2^31 .. 2^31-1: the words above the second
\* repeat the sign of the second.
Fits(x) ==
    \A i \in 3..Len(x) : x[i] = IF x[2] >= Radix \div 2 THEN Radix - 1 ELSE 0

\* The value of an int x that Fits.
Num(x) ==
    (IF x[2] >= Radix \div 2 THEN x[2] - Radix ELSE x[2]) * Radix + x[1]

\* k words, each a.
RECURSIVE Rep(_, _)
Rep(k, a) == IF k = 0 THEN <<>> ELSE <<a>> \o Rep(k - 1, a)

\* The largest and the smallest int of w bits, 2^(w-1) - 1 and -2^(w-1).
MaxInt(w) == Rep(w \div WordBits - 1, Radix - 1) \o <<Radix \div 2 - 1>>
MinInt(w) == Rep(w \div WordBits - 1, 0) \o <<Radix \div 2>>

\* The words of x + y + c, word by word with the carry c; the carry out of the
\* top word is dropped.
RECURSIVE AddWords(_, _, _)
AddWords(x, y, c) ==
    IF x = <<>> THEN <<>>
    ELSE <<(x[1] + y[1] + c) % Radix>>
             \o AddWords(Tail(x), Tail(y), (x[1] + y[1] + c) \div Radix)

\* The sum s of x and y has left the range of int: x and y have one sign and s
\* has the other.
Overflowed(x, y, s) == Negative(x) = Negative(y) /\ Negative(s) # Negative(x)

\* Faulty variant of IntAdd: the sum saturates at the ends of the range.
IntAddSaturating(x, d) ==
    IF Overflowed(x, d, AddWords(x, d, 0))
      THEN IF Negative(x) THEN MinInt(WordBits * Len(x))
                          ELSE MaxInt(WordBits * Len(x))
      ELSE AddWords(x, d, 0)

\* x + d in Go's int: the sum modulo 2^w, w the width of x and d.
IntAdd(x, d) == AddWords(x, d, 0)

\* ------------------------------------------------------------------ state

VARIABLES
    val,        \* ai.val
    writer,     \* goroutines holding ai.mutex for writing (at most one)
    readers,    \* goroutines holding ai.mutex for reading
    pc,         \* pc[t]: "idle", a line label of int.go, or "done"
    op,         \* op[t]: the call in progress, [m |-> method, a, b |-> arguments]
    old,        \* old[t]: the local `old` of the GetAnd* methods
    tmp,        \* tmp[t]: the value a compound assignment has loaded
    ret,        \* ret[t]: the result, [int |-> ..., bool |-> ...]
    calls,      \* calls[t]: calls goroutine t has invoked
    workers,    \* harness: the goroutines that call
    rounds,     \* counting harness: increments per worker
    start,      \* history: the argument NewAtomicInt was given
    pre,        \* history: ai.val when t's call acquired the mutex
    lin,        \* history: the sequential cell, stepped at each acquisition
    expected,   \* history: the result the sequential cell gives t's call
    lastMut,    \* history: the latest mutating call that acquired the mutex
    returned,   \* record: <<method, result>> of the recorded calls that returned
    sum,        \* record: the amounts the recorded calls were invoked to add
    seen        \* record: seen[t], the Get results returned before t's Get began

mutexVars == <<writer, readers>>
locals    == <<old, tmp, ret>>
record    == <<returned, sum, seen>>
harness   == <<calls, workers, rounds, record>>
history   == <<start, pre, lin, expected, lastMut>>
vars      == <<val, writer, readers, pc, op, old, tmp, ret, calls, workers,
               rounds, start, pre, lin, expected, lastMut, returned, sum, seen>>

Methods == {"AddAndGet", "CompareAndSet", "DecrementAndGet", "Get", "GetAndAdd",
            "GetAndDecrement", "GetAndIncrement", "GetAndSet",
            "IncrementAndGet", "Set"}

\* The width of int in this build, and the int of that width whose value is n.
IntSize == WordBits * Len(val)
GoInt(n) == IntOf(IntSize, n)

NoOp     == [m |-> "none", a |-> GoInt(0), b |-> GoInt(0)]
NoResult == [int |-> GoInt(0), bool |-> FALSE]
NoMut    == [t |-> 0, m |-> "none", a |-> GoInt(0), b |-> GoInt(0),
             pre |-> GoInt(0)]

\* The first line of each method: its Lock / RLock call.
Entry(m) ==
    CASE m = "AddAndGet"       -> "L36"
      [] m = "CompareAndSet"   -> "L45"
      [] m = "DecrementAndGet" -> "L56"
      [] m = "Get"             -> "L64"
      [] m = "GetAndAdd"       -> "L71"
      [] m = "GetAndDecrement" -> "L80"
      [] m = "GetAndIncrement" -> "L89"
      [] m = "GetAndSet"       -> "L98"
      [] m = "IncrementAndGet" -> "L107"
      [] m = "Set"             -> "L115"

\* ------------------------------------------- the sequential integer cell

\* What the spec's table of operations says a call o does to a cell holding x.
SeqVal(o, x) ==
    CASE o.m \in {"Set", "GetAndSet"}                   -> o.a
      [] o.m \in {"AddAndGet", "GetAndAdd"}             -> IntAdd(x, o.a)
      [] o.m \in {"IncrementAndGet", "GetAndIncrement"} -> IntAdd(x, GoInt(1))
      [] o.m \in {"DecrementAndGet", "GetAndDecrement"} -> IntAdd(x, GoInt(-1))
      [] o.m = "CompareAndSet"                          -> IF x = o.a THEN o.b ELSE x
      [] OTHER                                          -> x

SeqRet(o, x) ==
    [int  |-> CASE o.m \in {"Get", "GetAndSet", "GetAndAdd", "GetAndIncrement",
                            "GetAndDecrement"}                   -> x
                [] o.m \in {"AddAndGet", "IncrementAndGet",
                            "DecrementAndGet"}                   -> SeqVal(o, x)
                [] OTHER                                         -> GoInt(0),
     bool |-> o.m = "CompareAndSet" /\ x = o.a]

\* ------------------------------------------------------------ sync.RWMutex

\* Faulty variant of Lock: it does not wait for the readers to leave.
LockIgnoringReaders(t) ==
    /\ writer = {}
    /\ writer' = {t}
    /\ UNCHANGED readers

Lock(t) ==
    /\ writer = {}
    /\ readers = {}
    /\ writer' = {t}
    /\ UNCHANGED readers

Unlock(t) ==
    /\ writer' = writer \ {t}
    /\ UNCHANGED readers

\* Faulty variant of RLock: it does not wait for the writer to leave.
RLockIgnoringWriter(t) ==
    /\ readers' = readers \cup {t}
    /\ UNCHANGED writer

RLock(t) ==
    /\ writer = {}
    /\ readers' = readers \cup {t}
    /\ UNCHANGED writer

RUnlock(t) ==
    /\ readers' = readers \ {t}
    /\ UNCHANGED writer

\* ------------------------------------------------------------- statements

Goto(t, l) == pc' = [pc EXCEPT ![t] = l]

\* History kept when a mutating call gets the mutex.
NoteWrite(t) ==
    /\ pre' = [pre EXCEPT ![t] = val]
    /\ lin' = SeqVal(op[t], lin)
    /\ expected' = [expected EXCEPT ![t] = SeqRet(op[t], lin)]
    /\ UNCHANGED start
    /\ lastMut' = [t |-> t, m |-> op[t].m, a |-> op[t].a, b |-> op[t].b,
                   pre |-> val]

\* History kept when Get gets the mutex.
NoteRead(t) ==
    /\ pre' = [pre EXCEPT ![t] = val]
    /\ expected' = [expected EXCEPT ![t] = SeqRet(op[t], lin)]
    /\ UNCHANGED <<start, lin, lastMut>>

\* ai.mutex.Lock()
AcquireW(t, from, to) ==
    /\ pc[t] = from
    /\ Lock(t)
    /\ NoteWrite(t)
    /\ Goto(t, to)
    /\ UNCHANGED <<val, op, locals, harness>>

\* ai.mutex.RLock()
AcquireR(t, from, to) ==
    /\ pc[t] = from
    /\ RLock(t)
    /\ NoteRead(t)
    /\ Goto(t, to)
    /\ UNCHANGED <<val, op, locals, harness>>

\* Faulty variant of ReleaseW: the deferred Unlock is missing.
ReleaseWMissing(t, from) ==
    /\ pc[t] = from
    /\ Goto(t, "done")
    /\ UNCHANGED <<val, mutexVars, op, locals, harness, history>>

\* the deferred ai.mutex.Unlock()
ReleaseW(t, from) ==
    /\ pc[t] = from
    /\ Unlock(t)
    /\ Goto(t, "done")
    /\ UNCHANGED <<val, op, locals, harness, history>>

\* the deferred ai.mutex.RUnlock()
ReleaseR(t, from) ==
    /\ pc[t] = from
    /\ RUnlock(t)
    /\ Goto(t, "done")
    /\ UNCHANGED <<val, op, locals, harness, history>>

\* the read of ai.val in `ai.val += delta`, `ai.val++`, `ai.val--`
LoadVal(t, from, to) ==
    /\ pc[t] = from
    /\ tmp' = [tmp EXCEPT ![t] = val]
    /\ Goto(t, to)
    /\ UNCHANGED <<val, mutexVars, op, old, ret, harness, history>>

\* the write of ai.val in `ai.val += delta`, `ai.val++`, `ai.val--`
StoreAdd(t, from, to, d) ==
    /\ pc[t] = from
    /\ val' = IntAdd(tmp[t], d)
    /\ Goto(t, to)
    /\ UNCHANGED <<mutexVars, op, locals, harness, history>>

\* ai.val = v
StoreVal(t, from, to, v) ==
    /\ pc[t] = from
    /\ val' = v
    /\ Goto(t, to)
    /\ UNCHANGED <<mutexVars, op, locals, harness, history>>

\* old := ai.val
SaveOld(t, from, to) ==
    /\ pc[t] = from
    /\ old' = [old EXCEPT ![t] = val]
    /\ Goto(t, to)
    /\ UNCHANGED <<val, mutexVars, op, tmp, ret, harness, history>>

\* return v (an int): the result is set, the deferred call is next
ReturnInt(t, from, to, v) ==
    /\ pc[t] = from
    /\ ret' = [ret EXCEPT ![t] = [int |-> v, bool |-> FALSE]]
    /\ Goto(t, to)
    /\ UNCHANGED <<val, mutexVars, op, old, tmp, harness, history>>

\* return v (a bool)
ReturnBool(t, from, to, v) ==
    /\ pc[t] = from
    /\ ret' = [ret EXCEPT ![t] = [int |-> GoInt(0), bool |-> v]]
    /\ Goto(t, to)
    /\ UNCHANGED <<val, mutexVars, op, old, tmp, harness, history>>

\* ---------------------------------------------------------------- methods

\* Faulty variant of AddAndGet: it returns the value it loaded.
AddAndGetReturnsLoaded(t) ==
    \/ AcquireW(t, "L36", "L38")
    \/ LoadVal(t, "L38", "L38w")
    \/ StoreAdd(t, "L38w", "L39", op[t].a)
    \/ ReturnInt(t, "L39", "L37", tmp[t])
    \/ ReleaseW(t, "L37")

AddAndGet(t) ==
    \/ AcquireW(t, "L36", "L38")
    \/ LoadVal(t, "L38", "L38w")
    \/ StoreAdd(t, "L38w", "L39", op[t].a)
    \/ ReturnInt(t, "L39", "L37", val)
    \/ ReleaseW(t, "L37")

\* Faulty variant of CompareAndSet: it takes the mutex for reading only.
CompareAndSetReadLocked(t) ==
    \/ AcquireR(t, "L45", "L47")
    \/ /\ pc[t] = "L47"
       /\ Goto(t, IF val = op[t].a THEN "L48" ELSE "L51")
       /\ UNCHANGED <<val, mutexVars, op, locals, harness, history>>
    \/ StoreVal(t, "L48", "L49", op[t].b)
    \/ ReturnBool(t, "L49", "L46", TRUE)
    \/ ReturnBool(t, "L51", "L46", FALSE)
    \/ ReleaseR(t, "L46")

\* Faulty variant of CompareAndSet: it stores without comparing.
CompareAndSetNoCheck(t) ==
    \/ AcquireW(t, "L45", "L47")
    \/ /\ pc[t] = "L47"
       /\ Goto(t, "L48")
       /\ UNCHANGED <<val, mutexVars, op, locals, harness, history>>
    \/ StoreVal(t, "L48", "L49", op[t].b)
    \/ ReturnBool(t, "L49", "L46", TRUE)
    \/ ReleaseW(t, "L46")

CompareAndSet(t) ==
    \/ AcquireW(t, "L45", "L47")
    \/ /\ pc[t] = "L47"
       /\ Goto(t, IF val = op[t].a THEN "L48" ELSE "L51")
       /\ UNCHANGED <<val, mutexVars, op, locals, harness, history>>
    \/ StoreVal(t, "L48", "L49", op[t].b)
    \/ ReturnBool(t, "L49", "L46", TRUE)
    \/ ReturnBool(t, "L51", "L46", FALSE)
    \/ ReleaseW(t, "L46")

\* Faulty variant of DecrementAndGet: it takes the mutex for reading only.
DecrementAndGetReadLocked(t) ==
    \/ AcquireR(t, "L56", "L58")
    \/ LoadVal(t, "L58", "L58w")
    \/ StoreAdd(t, "L58w", "L59", GoInt(-1))
    \/ ReturnInt(t, "L59", "L57", val)
    \/ ReleaseR(t, "L57")

DecrementAndGet(t) ==
    \/ AcquireW(t, "L56", "L58")
    \/ LoadVal(t, "L58", "L58w")
    \/ StoreAdd(t, "L58w", "L59", GoInt(-1))
    \/ ReturnInt(t, "L59", "L57", val)
    \/ ReleaseW(t, "L57")

\* Faulty variant of Get: it clears ai.val once it has read it.
GetResetting(t) ==
    \/ AcquireR(t, "L64", "L66")
    \/ ReturnInt(t, "L66", "L66w", val)
    \/ StoreVal(t, "L66w", "L65", GoInt(0))
    \/ ReleaseR(t, "L65")

\* Faulty variant of Get: it reads ai.val without taking the mutex.
GetUnlocked(t) ==
    \/ /\ pc[t] = "L64"
       /\ NoteRead(t)
       /\ Goto(t, "L66")
       /\ UNCHANGED <<val, mutexVars, op, locals, harness>>
    \/ ReturnInt(t, "L66", "L65", val)
    \/ /\ pc[t] = "L65"
       /\ Goto(t, "done")
       /\ UNCHANGED <<val, mutexVars, op, locals, harness, history>>

Get(t) ==
    \/ AcquireR(t, "L64", "L66")
    \/ ReturnInt(t, "L66", "L65", val)
    \/ ReleaseR(t, "L65")

\* Faulty variant of GetAndAdd: it returns the value after the addition.
GetAndAddReturnsNew(t) ==
    \/ AcquireW(t, "L71", "L73")
    \/ SaveOld(t, "L73", "L74")
    \/ LoadVal(t, "L74", "L74w")
    \/ StoreAdd(t, "L74w", "L75", op[t].a)
    \/ ReturnInt(t, "L75", "L72", val)
    \/ ReleaseW(t, "L72")

GetAndAdd(t) ==
    \/ AcquireW(t, "L71", "L73")
    \/ SaveOld(t, "L73", "L74")
    \/ LoadVal(t, "L74", "L74w")
    \/ StoreAdd(t, "L74w", "L75", op[t].a)
    \/ ReturnInt(t, "L75", "L72", old[t])
    \/ ReleaseW(t, "L72")

GetAndDecrement(t) ==
    \/ AcquireW(t, "L80", "L82")
    \/ SaveOld(t, "L82", "L83")
    \/ LoadVal(t, "L83", "L83w")
    \/ StoreAdd(t, "L83w", "L84", GoInt(-1))
    \/ ReturnInt(t, "L84", "L81", old[t])
    \/ ReleaseW(t, "L81")

\* Faulty variant of GetAndIncrement: it takes the mutex for reading only.
GetAndIncrementReadLocked(t) ==
    \/ AcquireR(t, "L89", "L91")
    \/ SaveOld(t, "L91", "L92")
    \/ LoadVal(t, "L92", "L92w")
    \/ StoreAdd(t, "L92w", "L93", GoInt(1))
    \/ ReturnInt(t, "L93", "L90", old[t])
    \/ ReleaseR(t, "L90")

\* Faulty variant of GetAndIncrement: it returns the incremented value.
GetAndIncrementReturnsNew(t) ==
    \/ AcquireW(t, "L89", "L91")
    \/ SaveOld(t, "L91", "L92")
    \/ LoadVal(t, "L92", "L92w")
    \/ StoreAdd(t, "L92w", "L93", GoInt(1))
    \/ ReturnInt(t, "L93", "L90", val)
    \/ ReleaseW(t, "L90")

GetAndIncrement(t) ==
    \/ AcquireW(t, "L89", "L91")
    \/ SaveOld(t, "L91", "L92")
    \/ LoadVal(t, "L92", "L92w")
    \/ StoreAdd(t, "L92w", "L93", GoInt(1))
    \/ ReturnInt(t, "L93", "L90", old[t])
    \/ ReleaseW(t, "L90")

\* Faulty variant of GetAndSet: it returns the value it has just stored.
GetAndSetReturnsNew(t) ==
    \/ AcquireW(t, "L98", "L100")
    \/ SaveOld(t, "L100", "L101")
    \/ StoreVal(t, "L101", "L102", op[t].a)
    \/ ReturnInt(t, "L102", "L99", val)
    \/ ReleaseW(t, "L99")

GetAndSet(t) ==
    \/ AcquireW(t, "L98", "L100")
    \/ SaveOld(t, "L100", "L101")
    \/ StoreVal(t, "L101", "L102", op[t].a)
    \/ ReturnInt(t, "L102", "L99", old[t])
    \/ ReleaseW(t, "L99")

\* Faulty variant of IncrementAndGet: it takes the mutex for reading only.
IncrementAndGetReadLocked(t) ==
    \/ AcquireR(t, "L107", "L109")
    \/ LoadVal(t, "L109", "L109w")
    \/ StoreAdd(t, "L109w", "L110", GoInt(1))
    \/ ReturnInt(t, "L110", "L108", val)
    \/ ReleaseR(t, "L108")

IncrementAndGet(t) ==
    \/ AcquireW(t, "L107", "L109")
    \/ LoadVal(t, "L109", "L109w")
    \/ StoreAdd(t, "L109w", "L110", GoInt(1))
    \/ ReturnInt(t, "L110", "L108", val)
    \/ ReleaseW(t, "L108")

\* Faulty variant of Set: it writes ai.val without taking the mutex.
SetUnlocked(t) ==
    \/ /\ pc[t] = "L115"
       /\ NoteWrite(t)
       /\ Goto(t, "L117")
       /\ UNCHANGED <<val, mutexVars, op, locals, harness>>
    \/ StoreVal(t, "L117", "L116", op[t].a)
    \/ /\ pc[t] = "L116"
       /\ Goto(t, "done")
       /\ UNCHANGED <<val, mutexVars, op, locals, harness, history>>

Set(t) ==
    \/ AcquireW(t, "L115", "L117")
    \/ StoreVal(t, "L117", "L116", op[t].a)
    \/ ReleaseW(t, "L116")

\* One statement of whichever method goroutine t is in.
Step(t) ==
    \/ AddAndGet(t)
    \/ CompareAndSet(t)
    \/ DecrementAndGet(t)
    \/ Get(t)
    \/ GetAndAdd(t)
    \/ GetAndDecrement(t)
    \/ GetAndIncrement(t)
    \/ GetAndSet(t)
    \/ IncrementAndGet(t)
    \/ Set(t)

\* ---------------------------------------------------------------- callers

\* Argument lists a caller may pass to method m, by value.
Args(m) ==
    CASE m \in {"Set", "GetAndSet"}       -> {<<v, 0>> : v \in Values}
      [] m \in {"AddAndGet", "GetAndAdd"} -> {<<d, 0>> : d \in Deltas}
      [] m = "CompareAndSet"              -> Values \X Values
      [] OTHER                            -> {<<0, 0>>}

\* Goroutine t calls method m with the ints whose values are ab.
CallFrame(t, m, ab) ==
    /\ pc[t] = "idle"
    /\ op' = [op EXCEPT ![t] = [m |-> m, a |-> GoInt(ab[1]), b |-> GoInt(ab[2])]]
    /\ calls' = [calls EXCEPT ![t] = @ + 1]
    /\ Goto(t, Entry(m))
    /\ UNCHANGED <<val, mutexVars, locals, workers, rounds, history>>

Call(t, m, ab) == CallFrame(t, m, ab) /\ UNCHANGED record

\* The method returns to its caller; its frame is gone.
ReturnFrame(t) ==
    /\ pc[t] = "done"
    /\ Goto(t, "idle")
    /\ op' = [op EXCEPT ![t] = NoOp]
    /\ old' = [old EXCEPT ![t] = GoInt(0)]
    /\ tmp' = [tmp EXCEPT ![t] = GoInt(0)]
    /\ ret' = [ret EXCEPT ![t] = NoResult]
    /\ pre' = [pre EXCEPT ![t] = GoInt(0)]
    /\ expected' = [expected EXCEPT ![t] = NoResult]
    /\ UNCHANGED <<val, mutexVars, calls, workers, rounds, start, lin, lastMut>>

Return(t) == ReturnFrame(t) /\ UNCHANGED record

RECURSIVE SumOver(_, _)
SumOver(f, S) ==
    IF S = {} THEN 0
    ELSE LET x == CHOOSE y \in S : TRUE IN f[x] + SumOver(f, S \ {x})

TotalCalls == SumOver(calls, Threads)

\* NewAtomicInt(v) for an int v, shared by goroutines that have not called
\* anything yet.
New(v) ==
    /\ val = v
    /\ writer = {}
    /\ readers = {}
    /\ pc = [t \in Threads |-> "idle"]
    /\ op = [t \in Threads |-> NoOp]
    /\ old = [t \in Threads |-> GoInt(0)]
    /\ tmp = [t \in Threads |-> GoInt(0)]
    /\ ret = [t \in Threads |-> NoResult]
    /\ calls = [t \in Threads |-> 0]
    /\ pre = [t \in Threads |-> GoInt(0)]
    /\ lin = v
    /\ expected = [t \in Threads |-> NoResult]
    /\ lastMut = NoMut
    /\ start = v
    /\ returned = {}
    /\ sum = 0
    /\ seen = [t \in Threads |-> {}]

\* The general harness: the clients call any method, MaxCalls calls in all.
Invoke(t) ==
    /\ t \in workers
    /\ TotalCalls < MaxCalls
    /\ \E m \in Methods : \E ab \in Args(m) : Call(t, m, ab)

Init ==
    /\ \E w \in IntSizes : \E v \in InitVals : New(IntOf(w, v))
    /\ workers = Clients
    /\ rounds = 0

Next ==
    \E t \in Threads :
        \/ Invoke(t)
        \/ Step(t)
        \/ Return(t)

Spec == Init /\ [][Next]_vars

\* ------------------------------------------------------ the counting harness

\* `workers` goroutines each call IncrementAndGet `rounds` times on
\* NewAtomicInt(0); once all of those calls have returned, one Get is called.
InitInc ==
    /\ \E w \in IntSizes : New(IntOf(w, 0))
    /\ workers \in (SUBSET Threads) \ {{}}
    /\ rounds \in 0..MaxRounds

IncWorker(t) ==
    /\ t \in workers
    /\ calls[t] < rounds
    /\ Call(t, "IncrementAndGet", <<0, 0>>)

FinalGet(t) ==
    /\ \A w \in workers : pc[w] = "idle" /\ calls[w] = rounds
    /\ \A u \in Threads \ workers : calls[u] = 0
    /\ Call(t, "Get", <<0, 0>>)

NextInc ==
    \E t \in Threads :
        \/ IncWorker(t)
        \/ FinalGet(t)
        \/ IncrementAndGet(t)
        \/ Get(t)
        \/ Return(t)

SpecInc == InitInc /\ [][NextInc]_vars

\* ---------------------------------------------------- the round-trip harness

\* Starting values of the round trip in a build whose int has w bits, the ends
\* of int's range among them.
RTVals(w) ==
    {MinInt(w), IntAdd(MinInt(w), IntOf(w, 1)), IntOf(w, -1), IntOf(w, 0),
     IntOf(w, 1), IntAdd(MaxInt(w), IntOf(w, -1)), MaxInt(w)}

\* One goroutine calls IncrementAndGet and then DecrementAndGet; nobody else
\* calls anything.
InitRT ==
    /\ \E w \in IntSizes : \E v \in RTVals(w) : New(v)
    /\ \E t \in Threads : workers = {t}
    /\ rounds = 0

RoundTrip(t) ==
    /\ t \in workers
    /\ \/ calls[t] = 0 /\ Call(t, "IncrementAndGet", <<0, 0>>)
       \/ calls[t] = 1 /\ Call(t, "DecrementAndGet", <<0, 0>>)

NextRT ==
    \E t \in Threads :
        \/ RoundTrip(t)
        \/ IncrementAndGet(t)
        \/ DecrementAndGet(t)
        \/ Return(t)

SpecRT == InitRT /\ [][NextRT]_vars

\* ------------------------------------------------------- program positions

\* The label at which a method's deferred Unlock / RUnlock is what remains:
\* the body has run and the result is set, the mutex is still held.
Deferred(m) ==
    CASE m = "AddAndGet"       -> "L37"
      [] m = "CompareAndSet"   -> "L46"
      [] m = "DecrementAndGet" -> "L57"
      [] m = "Get"             -> "L65"
      [] m = "GetAndAdd"       -> "L72"
      [] m = "GetAndDecrement" -> "L81"
      [] m = "GetAndIncrement" -> "L90"
      [] m = "GetAndSet"       -> "L99"
      [] m = "IncrementAndGet" -> "L108"
      [] m = "Set"             -> "L116"

\* Goroutine t is between its call's Lock / RLock and its Unlock / RUnlock.
InCritical(t) == pc[t] \notin {"idle", "done"} /\ pc[t] # Entry(op[t].m)

InWriterSection(t) == InCritical(t) /\ op[t].m # "Get"
InReaderSection(t) == InCritical(t) /\ op[t].m = "Get"

\* Goroutine t's call of method m has its result and has yet to unlock.
AtRelease(t, m) == op[t].m = m /\ pc[t] = Deferred(m)

\* ------------------------------------------------------------------ claims

\* C1: starting from 0, with N goroutines each calling IncrementAndGet M times
\* in any interleaving, the Get called after all those calls have returned
\* yields N*M.
NoLostUpdates ==
    \A t \in Threads :
        (op[t].m = "Get" /\ pc[t] = "done")
            => Num(ret[t].int) = Cardinality(workers) * rounds

\* Three workers, two rounds each, and the final Get has its result.
NoLostUpdatesWitness ==
    \E t \in Threads :
        /\ op[t].m = "Get" /\ pc[t] = "done"
        /\ Cardinality(workers) >= 2
        /\ rounds >= 2
        /\ Num(ret[t].int) >= 4

\* C2: the calls are linearizable.  Ordering the calls by the moment each got
\* the mutex (between its invocation and its response), every call returns
\* what the sequential integer cell returns in that order, and whenever no
\* mutating call is inside its critical section the stored value is the
\* sequential cell's.
Linearizable ==
    /\ \A t \in Threads : pc[t] = "done" => ret[t] = expected[t]
    /\ (\A t \in Threads : ~InWriterSection(t)) => val = lin

\* Two overlapping calls have both finished: a successful CompareAndSet that
\* changed the value and a GetAndAdd.
LinearizableWitness ==
    \E t, u \in Threads :
        /\ pc[t] = "done" /\ op[t].m = "CompareAndSet" /\ ret[t].bool
        /\ op[t].a # op[t].b
        /\ pc[u] = "done" /\ op[u].m = "GetAndAdd"

\* C3: CompareAndSet(expect, update) returns true and leaves update stored
\* exactly when the value was expect when the call took effect; otherwise it
\* returns false and leaves the value as it was.
CompareAndSetIff ==
    \A t \in Threads :
        AtRelease(t, "CompareAndSet") =>
            /\ ret[t].bool = (pre[t] = op[t].a)
            /\ val = IF pre[t] = op[t].a THEN op[t].b ELSE pre[t]

\* One CompareAndSet has succeeded with expect = update while another is
\* about to unlock after failing.
CompareAndSetIffWitness ==
    \E t, u \in Threads :
        /\ pc[t] = "done" /\ op[t].m = "CompareAndSet" /\ ret[t].bool
        /\ op[t].a = op[t].b
        /\ AtRelease(u, "CompareAndSet") /\ ~ret[u].bool /\ pre[u] # op[u].a

\* C4: at most one goroutine is inside a mutating method's critical section,
\* and while one is, none is inside Get's.
MutualExclusion ==
    /\ Cardinality({t \in Threads : InWriterSection(t)}) <= 1
    /\ (\E t \in Threads : InWriterSection(t))
           => ~(\E u \in Threads : InReaderSection(u))

\* Two Get calls are inside their critical sections at the same time.
MutualExclusionWitness ==
    Cardinality({t \in Threads : InReaderSection(t)}) >= 2

\* C5: GetAndSet(v) returns the value held when it took effect and leaves v
\* stored; a Get that holds the mutex with no mutation since returns v.
GetAndSetReturnsOld ==
    /\ \A t \in Threads :
           AtRelease(t, "GetAndSet") => ret[t].int = pre[t] /\ val = op[t].a
    /\ \A u \in Threads :
           (AtRelease(u, "Get") /\ lastMut.m = "GetAndSet")
               => ret[u].int = lastMut.a

\* A Get has read right after a GetAndSet(v) that replaced a different value.
GetAndSetReturnsOldWitness ==
    \E u \in Threads :
        /\ AtRelease(u, "Get")
        /\ lastMut.m = "GetAndSet"
        /\ lastMut.a # lastMut.pre
        /\ lastMut.t = u

\* C6: from value x, GetAndAdd(d) returns x and leaves x+d, GetAndIncrement
\* returns x and leaves x+1, GetAndDecrement returns x and leaves x-1.
GetThenModify ==
    \A t \in Threads :
        /\ AtRelease(t, "GetAndAdd")
               => ret[t].int = pre[t] /\ Num(val) = Num(pre[t]) + Num(op[t].a)
        /\ AtRelease(t, "GetAndIncrement")
               => ret[t].int = pre[t] /\ Num(val) = Num(pre[t]) + 1
        /\ AtRelease(t, "GetAndDecrement")
               => ret[t].int = pre[t] /\ Num(val) = Num(pre[t]) - 1

\* A GetAndAdd(2) is about to unlock while a GetAndDecrement has finished.
GetThenModifyWitness ==
    \E t, u \in Threads :
        /\ AtRelease(t, "GetAndAdd") /\ Num(op[t].a) = 2
        /\ pc[u] = "done" /\ op[u].m = "GetAndDecrement"

\* C7: from value x, AddAndGet(d) returns x+d and leaves x+d, IncrementAndGet
\* returns and leaves x+1, DecrementAndGet returns and leaves x-1: the result
\* is the stored value when the call unlocks.
ModifyThenGet ==
    \A t \in Threads :
        /\ AtRelease(t, "AddAndGet")
               => Num(ret[t].int) = Num(pre[t]) + Num(op[t].a)
                      /\ val = ret[t].int
        /\ AtRelease(t, "IncrementAndGet")
               => Num(ret[t].int) = Num(pre[t]) + 1 /\ val = ret[t].int
        /\ AtRelease(t, "DecrementAndGet")
               => Num(ret[t].int) = Num(pre[t]) - 1 /\ val = ret[t].int

\* An AddAndGet(2) is about to unlock while a DecrementAndGet has finished.
ModifyThenGetWitness ==
    \E t, u \in Threads :
        /\ AtRelease(t, "AddAndGet") /\ Num(op[t].a) = 2
        /\ pc[u] = "done" /\ op[u].m = "DecrementAndGet"

\* C8: as the doc comments of GetAndAdd, GetAndIncrement and GetAndDecrement
\* say, each returns the result of the modification (the value after it).
GetAndReturnsResult ==
    \A t \in Threads :
        /\ AtRelease(t, "GetAndAdd")
               => Num(ret[t].int) = Num(pre[t]) + Num(op[t].a)
        /\ AtRelease(t, "GetAndIncrement")
               => Num(ret[t].int) = Num(pre[t]) + 1
        /\ AtRelease(t, "GetAndDecrement")
               => Num(ret[t].int) = Num(pre[t]) - 1

\* The value a mutating call establishes, as the spec lists it.
Established(mu) ==
    CASE mu.m \in {"Set", "GetAndSet"}                   -> Num(mu.a)
      [] mu.m \in {"AddAndGet", "GetAndAdd"}             -> Num(mu.pre) + Num(mu.a)
      [] mu.m \in {"IncrementAndGet", "GetAndIncrement"} -> Num(mu.pre) + 1
      [] mu.m \in {"DecrementAndGet", "GetAndDecrement"} -> Num(mu.pre) - 1
      [] mu.m = "CompareAndSet" ->
             IF mu.pre = mu.a THEN Num(mu.b) ELSE Num(mu.pre)

\* C9: a Get that follows a mutating call with nothing in between returns the
\* value that call established.  Stated for the Get of any goroutine after the
\* latest mutation of any goroutine; the runs in which one goroutine alone
\* calls are the single-thread case.
ReadYourWrite ==
    \A t \in Threads :
        (AtRelease(t, "Get") /\ lastMut.m # "none")
            => Num(ret[t].int) = Established(lastMut)

\* One goroutine alone has called: a failed CompareAndSet, then Get.
ReadYourWriteWitness ==
    \E t \in Threads :
        /\ AtRelease(t, "Get")
        /\ lastMut.t = t
        /\ lastMut.m = "CompareAndSet" /\ lastMut.pre # lastMut.a
        /\ \A u \in Threads \ {t} : calls[u] = 0

\* C10: in one goroutine with nothing in between, IncrementAndGet followed by
\* DecrementAndGet makes the decrement return the starting value and leaves
\* it stored.
IncDecRoundTrip ==
    \A t \in Threads :
        (op[t].m = "DecrementAndGet" /\ pc[t] \in {"L57", "done"})
            => ret[t].int = start /\ val = start

\* The round trip has finished from the largest int of a 64-bit build.
IncDecRoundTripWitness ==
    \E t \in Threads :
        /\ op[t].m = "DecrementAndGet" /\ pc[t] = "done"
        /\ start = MaxInt(64)

\* ------------------------------------------------------ the scenario harness

\* The calls of the spec's concrete scenario, made in this order by one
\* goroutine on NewAtomicInt(5), and the result each is to give, by value.
Scenario ==
    << [m |-> "AddAndGet",       a |-> 3, b |-> 0],
       [m |-> "CompareAndSet",   a |-> 8, b |-> 10],
       [m |-> "Get",             a |-> 0, b |-> 0],
       [m |-> "CompareAndSet",   a |-> 8, b |-> 99],
       [m |-> "Get",             a |-> 0, b |-> 0],
       [m |-> "GetAndIncrement", a |-> 0, b |-> 0],
       [m |-> "Get",             a |-> 0, b |-> 0] >>

ScenarioResults ==
    << [int |-> 8,  bool |-> FALSE],
       [int |-> 0,  bool |-> TRUE],
       [int |-> 10, bool |-> FALSE],
       [int |-> 0,  bool |-> FALSE],
       [int |-> 10, bool |-> FALSE],
       [int |-> 10, bool |-> FALSE],
       [int |-> 11, bool |-> FALSE] >>

InitScn ==
    /\ \E w \in IntSizes : New(IntOf(w, 5))
    /\ \E t \in Threads : workers = {t}
    /\ rounds = 0

ScenarioCall(t) ==
    /\ t \in workers
    /\ calls[t] < Len(Scenario)
    /\ Call(t, Scenario[calls[t] + 1].m,
            <<Scenario[calls[t] + 1].a, Scenario[calls[t] + 1].b>>)

NextScn ==
    \E t \in Threads :
        \/ ScenarioCall(t)
        \/ AddAndGet(t)
        \/ CompareAndSet(t)
        \/ Get(t)
        \/ GetAndIncrement(t)
        \/ Return(t)

SpecScn == InitScn /\ [][NextScn]_vars

\* C11: after NewAtomicInt(5): AddAndGet(3) returns 8; CompareAndSet(8, 10)
\* returns true and Get returns 10; CompareAndSet(8, 99) returns false and Get
\* still returns 10; GetAndIncrement returns 10 and Get then returns 11.
ScenarioHolds ==
    \A t \in Threads :
        pc[t] = "done" =>
            /\ Num(ret[t].int) = ScenarioResults[calls[t]].int
            /\ ret[t].bool = ScenarioResults[calls[t]].bool

\* The last Get of the scenario has returned 11.
ScenarioHoldsWitness ==
    \E t \in Threads :
        /\ pc[t] = "done"
        /\ calls[t] = Len(Scenario)
        /\ Num(ret[t].int) = 11
        /\ Num(val) = 11

\* ------------------------------------------------------- fair scheduling

\* Calls invoked in one run of the fair harness (SpecFair).
MaxFairCalls == 2

\* The clients call any method, MaxFairCalls calls in all, under Go's
\* scheduler: a goroutine that can run its next statement, or return,
\* eventually does.  Callers are free to stop calling.  FairArgs(m) are the
\* argument lists they pass to method m, by value.
FairArgs(m) ==
    CASE m \in {"Set", "GetAndSet"}       -> {<<2, 0>>}
      [] m \in {"AddAndGet", "GetAndAdd"} -> {<<-1, 0>>}
      [] m = "CompareAndSet"              -> {<<2, 0>>, <<0, 2>>}
      [] OTHER                            -> {<<0, 0>>}

InvokeFair(t) ==
    /\ t \in workers
    /\ TotalCalls < MaxFairCalls
    /\ \E m \in Methods : \E ab \in FairArgs(m) : Call(t, m, ab)

NextFair ==
    \E t \in Threads :
        \/ InvokeFair(t)
        \/ Step(t)
        \/ Return(t)

SpecFair ==
    /\ Init
    /\ [][NextFair]_vars
    /\ \A t \in Threads : WF_vars(Step(t)) /\ WF_vars(Return(t))

Pending(t) == pc[t] \notin {"idle", "done"}

\* C12: under fair scheduling every invoked call gets the mutex, sets its
\* result and releases the mutex; while a call is pending some goroutine can
\* take a step; when no call is pending the mutex is free.
EveryCallCompletes ==
    /\ \A t \in Clients : (Pending(t) /\ ~InCritical(t)) ~> InCritical(t)
    /\ \A t \in Clients :
           Pending(t) ~> (pc[t] = "done" /\ t \notin writer \cup readers)
    /\ []((\E t \in Threads : Pending(t)) => ENABLED (\E u \in Threads : Step(u)))
    /\ []((\A t \in Threads : ~Pending(t)) => writer = {} /\ readers = {})

\* A call has finished while the other client's call was waiting for the
\* mutex it held, and the mutex is free again.
EveryCallCompletesWitness ==
    \E t, u \in Threads :
        /\ pc[t] = "done" /\ op[t].m = "GetAndAdd"
        /\ pc[u] = "done" /\ op[u].m = "Set"
        /\ lastMut.t = u
        /\ writer = {} /\ readers = {}

\* ------------------------------------------------------ the overflow harness

\* Calls invoked in one run of the overflow harness (SpecWrap).
MaxWrapCalls == 2

\* Starting values at the two ends of the range of an int of w bits.
WrapVals(w) ==
    {MinInt(w), IntAdd(MinInt(w), IntOf(w, 1)),
     IntAdd(MaxInt(w), IntOf(w, -1)), MaxInt(w)}

Additive == {"AddAndGet", "GetAndAdd", "IncrementAndGet", "GetAndIncrement",
             "DecrementAndGet", "GetAndDecrement"}

\* The amount a call of an additive method adds.
DeltaOf(o) ==
    CASE o.m \in {"AddAndGet", "GetAndAdd"}             -> o.a
      [] o.m \in {"IncrementAndGet", "GetAndIncrement"} -> GoInt(1)
      [] o.m \in {"DecrementAndGet", "GetAndDecrement"} -> GoInt(-1)
      [] OTHER                                          -> GoInt(0)

InitWrap ==
    /\ \E w \in IntSizes : \E v \in WrapVals(w) : New(v)
    /\ workers = Clients
    /\ rounds = 0

InvokeWrap(t) ==
    /\ t \in workers
    /\ TotalCalls < MaxWrapCalls
    /\ \E m \in Additive : \E ab \in Args(m) : Call(t, m, ab)

NextWrap ==
    \E t \in Threads :
        \/ InvokeWrap(t)
        \/ AddAndGet(t)
        \/ GetAndAdd(t)
        \/ IncrementAndGet(t)
        \/ GetAndIncrement(t)
        \/ DecrementAndGet(t)
        \/ GetAndDecrement(t)
        \/ Return(t)

SpecWrap == InitWrap /\ [][NextWrap]_vars

\* The carry into word i when x and d are added word by word.
RECURSIVE Carry(_, _, _)
Carry(x, d, i) ==
    IF i = 1 THEN 0
    ELSE (x[i - 1] + d[i - 1] + Carry(x, d, i - 1)) \div Radix

\* r is x + d modulo 2^w as a two's-complement number of w bits, w the width
\* of x: r has the words of x, each a 16-bit word that differs from the sum of
\* the words of x and d and the carry into them by a multiple of 2^16.
WrapsTo(r, x, d) ==
    /\ Len(r) = Len(x)
    /\ \A i \in 1..Len(x) :
           /\ r[i] \in 0..(Radix - 1)
           /\ (r[i] - (x[i] + d[i] + Carry(x, d, i))) % Radix = 0

\* The additive call of t passes an end of int's range.
Overflows(t) ==
    Overflowed(pre[t], DeltaOf(op[t]), AddWords(pre[t], DeltaOf(op[t]), 0))

\* C13: an additive method that passes an end of int's range stores the
\* two's-complement wrapped sum, returns it (modify-then-get forms) or the
\* value before (get-then-modify forms), and goes on to its Unlock as usual;
\* one more than the largest int is the smallest, one less than the smallest
\* is the largest.  This holds with int 32 bits wide and with int 64 bits wide.
OverflowWraps ==
    \A t \in Threads :
        (op[t].m \in Additive /\ pc[t] = Deferred(op[t].m)) =>
            /\ WrapsTo(val, pre[t], DeltaOf(op[t]))
            /\ (pre[t] = MaxInt(IntSize) /\ DeltaOf(op[t]) = GoInt(1))
                   => val = MinInt(IntSize)
            /\ (pre[t] = MinInt(IntSize) /\ DeltaOf(op[t]) = GoInt(-1))
                   => val = MaxInt(IntSize)
            /\ op[t].m \in {"AddAndGet", "IncrementAndGet", "DecrementAndGet"}
                   => ret[t].int = val
            /\ op[t].m \in {"GetAndAdd", "GetAndIncrement", "GetAndDecrement"}
                   => ret[t].int = pre[t]
            /\ ENABLED ReleaseW(t, pc[t])

\* In a 64-bit build an IncrementAndGet at the largest int has returned the
\* smallest, and a GetAndDecrement at the smallest int is leaving the largest
\* stored.
OverflowWrapsWitness ==
    \E t, u \in Threads :
        /\ IntSize = 64
        /\ op[t].m = "IncrementAndGet" /\ pc[t] = "done"
        /\ pre[t] = MaxInt(64) /\ ret[t].int = MinInt(64)
        /\ AtRelease(u, "GetAndDecrement") /\ Overflows(u)
        /\ pre[u] = MinInt(64) /\ val = MaxInt(64)

\* ------------------------------------------------------------ lock discipline

\* The labels whose statement writes ai.val, and those whose statement reads it.
WriteLabels == {"L38w", "L48", "L58w", "L74w", "L83w", "L92w", "L101",
                "L109w", "L117"}
ReadLabels  == {"L38", "L39", "L47", "L58", "L59", "L66", "L73", "L74", "L82",
                "L83", "L91", "L92", "L100", "L109", "L110"}

HoldsExclusive(t) == writer = {t} /\ readers = {}
HoldsShared(t)    == t \in readers /\ writer = {}

\* C14: ai.val is written only by a goroutine holding the mutex exclusively
\* and read only by one holding it (shared in Get, exclusively elsewhere); a
\* call holds the mode it acquired until its deferred release, and a
\* goroutine that is not inside a call holds nothing.
LockDiscipline ==
    /\ [](\A t \in Threads :
             /\ pc[t] \in WriteLabels => HoldsExclusive(t)
             /\ pc[t] \in ReadLabels =>
                    IF op[t].m = "Get" THEN HoldsShared(t) ELSE HoldsExclusive(t)
             /\ InWriterSection(t) => HoldsExclusive(t)
             /\ InReaderSection(t) => HoldsShared(t)
             /\ ~InCritical(t) => t \notin writer \cup readers)
    /\ [][val' # val =>
             \E t \in Threads :
                 /\ pc[t] \in WriteLabels
                 /\ pc'[t] # pc[t]
                 /\ HoldsExclusive(t)]_vars

\* A Get is about to read ai.val under the shared lock while the other client
\* waits at its Lock call to write.
LockDisciplineWitness ==
    \E t, u \in Threads :
        /\ pc[t] = "L66" /\ HoldsShared(t)
        /\ op[u].m = "Set" /\ pc[u] = "L115"
        /\ lastMut.m = "GetAndSet" /\ lastMut.t = u

\* ------------------------------------------------------------- frame of Get

\* C15: no step of a Get call changes ai.val; ai.val changes only at a step of
\* one of the nine mutating methods, and never at a step of a CompareAndSet
\* whose expectation was not met.
GetLeavesValue ==
    [][\A t \in Threads :
           pc'[t] # pc[t] =>
               /\ (op[t].m = "Get" \/ op'[t].m = "Get") => val' = val
               /\ val' # val =>
                      /\ op[t].m \in Methods \ {"Get"}
                      /\ ~(op[t].m = "CompareAndSet" /\ pre[t] # op[t].a)]_vars

\* A Get has run to its result after the other client's CompareAndSet failed,
\* and the value is the one that was there before both.
GetLeavesValueWitness ==
    \E t, u \in Threads :
        /\ op[t].m = "Get" /\ pc[t] = "done" /\ ret[t].int = val
        /\ op[u].m = "CompareAndSet" /\ pc[u] = "done" /\ ~ret[u].bool
        /\ lastMut.t = u /\ lastMut.pre = val /\ val = start

\* ----------------------------------------------- the compare-and-set race

\* With the value e stored, each of two or more goroutines calls
\* CompareAndSet(e, u) once, u different from e; nothing else is called.  The
\* results are read once every call is done.
InitCas ==
    /\ \E w \in IntSizes : \E v \in InitVals : New(IntOf(w, v))
    /\ workers \in {S \in SUBSET Threads : Cardinality(S) >= 2}
    /\ rounds = 0

CasWorker(t) ==
    /\ t \in workers
    /\ calls[t] = 0
    /\ \E u \in (InitVals \cup Values) \ {Num(start)} :
           Call(t, "CompareAndSet", <<Num(start), u>>)

NextCas ==
    \E t \in Threads :
        \/ CasWorker(t)
        \/ CompareAndSet(t)

SpecCas == InitCas /\ [][NextCas]_vars

AllDone == \A t \in workers : pc[t] = "done"

Winners == {t \in workers : pc[t] = "done" /\ ret[t].bool}

\* C16: of k >= 2 concurrent CompareAndSet(e, u_i) calls on value e, u_i # e,
\* exactly one returns true, the others return false, and the final value is
\* the winner's u_i.  (Before all are done there is never more than one
\* winner.)
UniqueWinner ==
    /\ Cardinality(Winners) <= 1
    /\ AllDone =>
           /\ Cardinality(Winners) = 1
           /\ \A t \in Winners : val = op[t].b

\* Three calls, not all with the same update, are done; one of them has won.
UniqueWinnerWitness ==
    /\ Cardinality(workers) = 3
    /\ AllDone
    /\ \E t \in workers : ret[t].bool /\ val = op[t].b
    /\ \E t, u \in workers : op[t].b # op[u].b

\* ------------------------------------------------------- recording callers

\* The Get results among the recorded results.
GetResults == {r[2] : r \in {q \in returned : q[1] = "Get"}}

\* A call that is recorded: the amount it is to add joins sum, and a Get
\* notes the Get results that have already been returned.
CallRecorded(t, m, ab) ==
    /\ CallFrame(t, m, ab)
    /\ sum' = sum + Num(DeltaOf([m |-> m, a |-> GoInt(ab[1]), b |-> GoInt(ab[2])]))
    /\ seen' = [seen EXCEPT ![t] = IF m = "Get" THEN GetResults ELSE {}]
    /\ UNCHANGED returned

\* A return that is recorded: the caller keeps the result.
ReturnRecorded(t) ==
    /\ ReturnFrame(t)
    /\ returned' = returned \cup {<<op[t].m, ret[t].int>>}
    /\ UNCHANGED <<sum, seen>>

\* No call is in progress.
Quiet == \A t \in Threads : pc[t] = "idle"

\* ------------------------------------------------- the sequence generator

\* Every call made so far, returned or not, is a call of m.
OnlyCalled(m) ==
    /\ \A t \in Threads : op[t].m \in {"none", m}
    /\ \A r \in returned : r[1] = m

\* The goroutines draw numbers: all by GetAndIncrement or all by
\* IncrementAndGet, up to MaxRounds draws each.
InitGen ==
    /\ \E w \in IntSizes : \E v \in InitVals : New(IntOf(w, v))
    /\ workers = Threads
    /\ rounds = MaxRounds

Draw(t) ==
    /\ t \in workers
    /\ calls[t] < rounds
    /\ \E m \in {"GetAndIncrement", "IncrementAndGet"} :
           /\ OnlyCalled(m)
           /\ CallRecorded(t, m, <<0, 0>>)

NextGen ==
    \E t \in Threads :
        \/ Draw(t)
        \/ GetAndIncrement(t)
        \/ IncrementAndGet(t)
        \/ ReturnRecorded(t)

SpecGen == InitGen /\ [][NextGen]_vars

\* The values the calls returned.
Drawn == {Num(r[2]) : r \in returned}

\* C17: when k calls, all of GetAndIncrement, have returned, the values
\* returned are v0, ..., v0+k-1, each once; when all are of IncrementAndGet
\* they are v0+1, ..., v0+k, each once.
UniqueSequence ==
    Quiet =>
        /\ (TotalCalls > 0 /\ OnlyCalled("GetAndIncrement"))
               => Drawn = Num(start) .. (Num(start) + TotalCalls - 1)
        /\ (TotalCalls > 0 /\ OnlyCalled("IncrementAndGet"))
               => Drawn = (Num(start) + 1) .. (Num(start) + TotalCalls)
        /\ Cardinality(Drawn) = TotalCalls

\* Three goroutines have drawn four or more numbers by GetAndIncrement.
UniqueSequenceWitness ==
    /\ Quiet
    /\ OnlyCalled("GetAndIncrement")
    /\ TotalCalls >= 4
    /\ \A t \in Threads : calls[t] >= 1
    /\ Cardinality(Drawn) = TotalCalls

\* ------------------------------------------------------ concurrent adders

\* The number of calls the adders make in all.
MaxSumCalls == 3

\* The clients add to the integer and read it, by any of the additive
\* methods and Get, MaxSumCalls calls in all.
InitSum ==
    /\ \E w \in IntSizes : \E v \in InitVals : New(IntOf(w, v))
    /\ workers = Clients
    /\ rounds = 0

Adder(t) ==
    /\ t \in workers
    /\ TotalCalls < MaxSumCalls
    /\ \E m \in Additive \cup {"Get"} :
           \E ab \in Args(m) : CallRecorded(t, m, ab)

NextSum ==
    \E t \in Threads :
        \/ Adder(t)
        \/ AddAndGet(t)
        \/ GetAndAdd(t)
        \/ IncrementAndGet(t)
        \/ GetAndIncrement(t)
        \/ DecrementAndGet(t)
        \/ GetAndDecrement(t)
        \/ Get(t)
        \/ Return(t)

SpecSum == InitSum /\ [][NextSum]_vars

\* C18: when all the calls, drawn from the additive methods and Get, have
\* returned, the value is the initial value plus the sum of all the amounts
\* added (+1 per increment, -1 per decrement), whatever the interleaving.
SumOfDeltas ==
    Quiet => Num(val) = Num(start) + sum

\* The two clients have made their calls, which added 2 in all, and
\* DecrementAndGet was the last to write.
SumOfDeltasWitness ==
    /\ Quiet
    /\ TotalCalls >= 3
    /\ \A t \in Clients : calls[t] >= 1
    /\ sum = 2
    /\ lastMut.m = "DecrementAndGet"
    /\ Num(val) = Num(start) + 2

\* ------------------------------------------------ readers of a rising count

\* Some of the goroutines, the counters, increment NewAtomicInt(1) and the
\* others read it, up to MaxRounds calls each; no other method writes it.
InitMono ==
    /\ \E w \in IntSizes : New(IntOf(w, 1))
    /\ workers \in (SUBSET Threads) \ {{}, Threads}
    /\ rounds = MaxRounds

Counter(t) ==
    /\ t \in workers
    /\ calls[t] < rounds
    /\ \E m \in {"IncrementAndGet", "GetAndIncrement"} :
           CallRecorded(t, m, <<0, 0>>)

Reader(t) ==
    /\ t \notin workers
    /\ calls[t] < rounds
    /\ CallRecorded(t, "Get", <<0, 0>>)

\* The caller keeps what Get returned and drops what an increment returned.
TakeRead(t) ==
    IF op[t].m = "Get" THEN ReturnRecorded(t) ELSE Return(t)

NextMono ==
    \E t \in Threads :
        \/ Counter(t)
        \/ Reader(t)
        \/ IncrementAndGet(t)
        \/ GetAndIncrement(t)
        \/ Get(t)
        \/ TakeRead(t)

SpecMono == InitMono /\ [][NextMono]_vars

\* Get has returned to goroutine t, which has not yet taken the result.
GetDone(t) == pc[t] = "done" /\ op[t].m = "Get"

\* C19: while IncrementAndGet and GetAndIncrement are the only methods that
\* write, a Get called after another Get returned does not return less than
\* that one did, and every Get returns a value from the initial value up to
\* the initial value plus the number of increments called so far.
MonotonicReads ==
    \A t \in Threads :
        GetDone(t) =>
            /\ \A g \in seen[t] : Num(g) <= Num(ret[t].int)
            /\ Num(start) <= Num(ret[t].int)
            /\ Num(ret[t].int) <= Num(start) + sum

\* A Get called after a Get had returned, and after two increments had been
\* called, returns more than the earlier Get did.
MonotonicReadsWitness ==
    \E t \in Threads :
        /\ GetDone(t)
        /\ sum >= 2
        /\ \E g \in seen[t] : Num(g) < Num(ret[t].int)
        /\ Num(ret[t].int) > Num(start)

====
